---- MODULE Spec2Model ----
(***************************************************************************)
(* Model of align_lyrics.py: the lyrics/transcript alignment               *)
(* (difflib.SequenceMatcher matching blocks), the gap interpolation and    *)
(* the three output formatters.                                            *)
(*                                                                         *)
(* Words are sequences of one-character strings.  Indices into lyrics and  *)
(* transcript are Python's (0-based); sequence element i is seq[i + 1].    *)
(*                                                                         *)
(* Times are integers counted in units of 2 ms (Centi units = 0.01 s).     *)
(* Transcript times are even (multiples of 4 ms), so the midpoint of two   *)
(* of them is a whole number of units, and since Centi is odd no estimate  *)
(* lies exactly half way between two hundredths, where the binary float    *)
(* expansion would decide the direction of Python's round().               *)
(***************************************************************************)
EXTENDS Integers, Sequences, FiniteSets, TLC

VARIABLES lyrics_words, transcribed, lyrics_to_trans, result_timings, report, output, pc

vars == <<lyrics_words, transcribed, lyrics_to_trans, result_timings, report, output, pc>>

(***************************************************************************)
(* Bounds of the explored inputs.                                          *)
(***************************************************************************)
MaxLyrics == 3
MaxTrans == 2
MaxRepeat == 4

(***************************************************************************)
(* Program constants.                                                      *)
(***************************************************************************)
Centi == 5
EstimateOffset == 30 * Centi
EstimateDuration == 20 * Centi
UnitsPerSecond == 100 * Centi
AutojunkMinLen == 200
DefaultFont == "bold 80px Baloo2"
DefaultColor == "white"

Range(s) == {s[k] : k \in 1..Len(s)}

Min(S) == CHOOSE x \in S : \A y \in S : x <= y

Max(S) == CHOOSE x \in S : \A y \in S : x >= y

(***************************************************************************)
(* Characters: str.lower, str.upper and the regex class [\w'].             *)
(***************************************************************************)
Lower(c) == CASE c = "A" -> "a" [] c = "B" -> "b" [] c = "C" -> "c" [] OTHER -> c

Upper(c) == CASE c = "a" -> "A" [] c = "b" -> "B" [] c = "c" -> "C" [] OTHER -> c

Digits == <<"0", "1", "2", "3", "4", "5", "6", "7", "8", "9">>

IsWordChar(c) == c \in {"a", "b", "c", "A", "B", "C", "_", "'"} \cup Range(Digits)

LowerStr(w) == [k \in 1..Len(w) |-> Lower(w[k])]

UpperStr(w) == [k \in 1..Len(w) |-> Upper(w[k])]

\* re.sub(r'[^\w\']', '', word.lower())
clean_word(word) == SelectSeq(LowerStr(word), IsWordChar)

\* str(n) for n >= 0
RECURSIVE IntToStr(_)
IntToStr(n) == IF n < 10 THEN <<Digits[n + 1]>> ELSE IntToStr(n \div 10) \o <<Digits[(n % 10) + 1]>>

(***************************************************************************)
(* Times.                                                                  *)
(***************************************************************************)
\* round(x, 2): the nearest hundredth of a second
Round2(x) == LET r == x % Centi IN IF 2 * r < Centi THEN x - r ELSE x + (Centi - r)

\* int(x * 1000): whole milliseconds, truncated
ToMillis(x) == (x * 1000) \div UnitsPerSecond

(***************************************************************************)
(* difflib.SequenceMatcher(None, a, b), autojunk left at its default.      *)
(***************************************************************************)
\* elements of b dropped from b2j by the autojunk heuristic
Popular(b) ==
    IF Len(b) >= AutojunkMinLen
    THEN {e \in Range(b) : Cardinality({j \in 1..Len(b) : b[j] = e}) > (Len(b) \div 100) + 1}
    ELSE {}

\* j2len: length of the run of b2j matches that ends at (i, j) inside the window
RECURSIVE RunLen(_, _, _, _, _, _, _)
RunLen(a, b, pop, alo, blo, i, j) ==
    IF i < alo \/ j < blo THEN 0
    ELSE IF a[i + 1] # b[j + 1] \/ b[j + 1] \in pop THEN 0
    ELSE 1 + RunLen(a, b, pop, alo, blo, i - 1, j - 1)

RECURSIVE ExtendLeft(_, _, _, _, _)
ExtendLeft(a, b, alo, blo, m) ==
    IF m[1] > alo /\ m[2] > blo /\ a[m[1]] = b[m[2]]
    THEN ExtendLeft(a, b, alo, blo, <<m[1] - 1, m[2] - 1, m[3] + 1>>)
    ELSE m

RECURSIVE ExtendRight(_, _, _, _, _)
ExtendRight(a, b, ahi, bhi, m) ==
    IF m[1] + m[3] < ahi /\ m[2] + m[3] < bhi /\ a[m[1] + m[3] + 1] = b[m[2] + m[3] + 1]
    THEN ExtendRight(a, b, ahi, bhi, <<m[1], m[2], m[3] + 1>>)
    ELSE m

\* the longest block in a[alo:ahi], b[blo:bhi]; of the longest ones the one that
\* starts earliest in a, and of those the one that starts earliest in b
find_longest_match(a, b, pop, alo, ahi, blo, bhi) ==
    LET cells == {c \in (alo..(ahi - 1)) \X (blo..(bhi - 1)) :
                      a[c[1] + 1] = b[c[2] + 1] /\ b[c[2] + 1] \notin pop}
        len(c) == RunLen(a, b, pop, alo, blo, c[1], c[2])
        bestsize == IF cells = {} THEN 0 ELSE Max({len(c) : c \in cells})
        ends == {c \in cells : len(c) = bestsize}
        ei == Min({c[1] : c \in ends})
        ej == Min({c[2] : c \in {d \in ends : d[1] = ei}})
        best == IF bestsize = 0 THEN <<alo, blo, 0>>
                ELSE <<ei - bestsize + 1, ej - bestsize + 1, bestsize>>
    IN ExtendRight(a, b, ahi, bhi, ExtendLeft(a, b, alo, blo, best))

\* the blocks found in the window and, recursively, left and right of each, sorted
RECURSIVE Blocks(_, _, _, _, _, _, _)
Blocks(a, b, pop, alo, ahi, blo, bhi) ==
    LET x == find_longest_match(a, b, pop, alo, ahi, blo, bhi)
        left == IF alo < x[1] /\ blo < x[2]
                THEN Blocks(a, b, pop, alo, x[1], blo, x[2]) ELSE <<>>
        right == IF x[1] + x[3] < ahi /\ x[2] + x[3] < bhi
                 THEN Blocks(a, b, pop, x[1] + x[3], ahi, x[2] + x[3], bhi) ELSE <<>>
    IN IF x[3] = 0 THEN <<>> ELSE left \o <<x>> \o right

\* adjacent blocks are merged
RECURSIVE Collapse(_, _)
Collapse(cur, blocks) ==
    IF blocks = <<>> THEN (IF cur[3] > 0 THEN <<cur>> ELSE <<>>)
    ELSE LET nx == Head(blocks) IN
         IF cur[1] + cur[3] = nx[1] /\ cur[2] + cur[3] = nx[2]
         THEN Collapse(<<cur[1], cur[2], cur[3] + nx[3]>>, Tail(blocks))
         ELSE (IF cur[3] > 0 THEN <<cur>> ELSE <<>>) \o Collapse(nx, Tail(blocks))

get_matching_blocks(a, b) ==
    Collapse(<<0, 0, 0>>, Blocks(a, b, Popular(b), 0, Len(a), 0, Len(b)))
        \o <<<<Len(a), Len(b), 0>>>>

(***************************************************************************)
(* align_lyrics: the correspondence map.                                   *)
(***************************************************************************)
CleanOf(ws) == [k \in 1..Len(ws) |-> ws[k].clean]

EmptyMap == [x \in {} |-> 0]

\* AddBlock with the transcript index not advanced along the block
AddBlock_NoOffset(map, block, nl, nt) ==
    LET hit == {i \in 0..(block[3] - 1) : block[1] + i < nl /\ block[2] + i < nt}
        new == {block[1] + i : i \in hit}
    IN [x \in (DOMAIN map) \cup new |-> IF x \in new THEN block[2] ELSE map[x]]

\* one matching block written into the map, index pair by index pair
AddBlock(map, block, nl, nt) ==
    LET hit == {i \in 0..(block[3] - 1) : block[1] + i < nl /\ block[2] + i < nt}
        new == {block[1] + i : i \in hit}
    IN [x \in (DOMAIN map) \cup new |->
            IF x \in new THEN block[2] + (x - block[1]) ELSE map[x]]

RECURSIVE MapBlocks(_, _, _, _)
MapBlocks(map, blocks, nl, nt) ==
    IF blocks = <<>> THEN map
    ELSE MapBlocks(AddBlock(map, Head(blocks), nl, nt), Tail(blocks), nl, nt)

LyricsToTrans(lw, tr) ==
    MapBlocks(EmptyMap, get_matching_blocks(CleanOf(lw), CleanOf(tr)), Len(lw), Len(tr))

(***************************************************************************)
(* align_lyrics: one timing per lyrics word.                               *)
(***************************************************************************)
\* PrevTime taking the previous anchor's start instead of its end
PrevTime_Start(map, tr, i) ==
    LET before == {j \in DOMAIN map : j >= 0 /\ j < i}
    IN IF before = {} THEN 0 ELSE tr[map[Max(before)] + 1].start

\* end of the transcript word of the nearest mapped index below i, else 0
PrevTime(map, tr, i) ==
    LET before == {j \in DOMAIN map : j >= 0 /\ j < i}
    IN IF before = {} THEN 0 ELSE tr[map[Max(before)] + 1].end

After(map, nl, i) == {j \in DOMAIN map : j > i /\ j < nl}

\* start of the transcript word of the nearest mapped index above i
NextTime(map, tr, nl, i) == tr[map[Min(After(map, nl, i))] + 1].start

\* EstTime taking half the gap between the anchors instead of their midpoint
EstTime_HalfGap(map, tr, nl, i) ==
    IF After(map, nl, i) # {}
    THEN (NextTime(map, tr, nl, i) - PrevTime(map, tr, i)) \div 2
    ELSE PrevTime(map, tr, i) + EstimateOffset

\* EstTime with the sum of the anchors' times not halved
EstTime_NotHalved(map, tr, nl, i) ==
    IF After(map, nl, i) # {}
    THEN PrevTime(map, tr, i) + NextTime(map, tr, nl, i)
    ELSE PrevTime(map, tr, i) + EstimateOffset

EstTime(map, tr, nl, i) ==
    IF After(map, nl, i) # {}
    THEN (PrevTime(map, tr, i) + NextTime(map, tr, nl, i)) \div 2
    ELSE PrevTime(map, tr, i) + EstimateOffset

Timing(lw, tr, map, i) ==
    IF i \in DOMAIN map
    THEN [word |-> lw[i + 1].original,
          start |-> Round2(tr[map[i] + 1].start),
          end |-> Round2(tr[map[i] + 1].end),
          line |-> lw[i + 1].line]
    ELSE [word |-> lw[i + 1].original,
          start |-> Round2(EstTime(map, tr, Len(lw), i)),
          end |-> Round2(EstTime(map, tr, Len(lw), i) + EstimateDuration),
          estimated |-> TRUE,
          line |-> lw[i + 1].line]

ResultTimings(lw, tr, map) == [k \in 1..Len(lw) |-> Timing(lw, tr, map, k - 1)]

Matched(lw, map) == Cardinality({i \in 0..(Len(lw) - 1) : i \in DOMAIN map})

(***************************************************************************)
(* format_reactive                                                         *)
(***************************************************************************)
RECURSIVE SortedSeq(_)
SortedSeq(S) == IF S = {} THEN <<>> ELSE <<Min(S)>> \o SortedSeq(S \ {Min(S)})

LineNums(word_timings) == {word_timings[k].line : k \in 1..Len(word_timings)}

LineWords(word_timings, line_num) == SelectSeq(word_timings, LAMBDA w : w.line = line_num)

\* WordsArray with every time taken from the start of the line
WordsArray_FromLineStart(line_words, font, color) ==
    [k \in 1..Len(line_words) |->
        [font |-> font,
         color |-> color,
         time |-> Round2(line_words[k].start - line_words[1].start),
         text |-> UpperStr(line_words[k].word)]]

WordsArray(line_words, font, color) ==
    [k \in 1..Len(line_words) |->
        [font |-> font,
         color |-> color,
         time |-> Round2(line_words[k].start
                         - (IF k = 1 THEN line_words[1].start ELSE line_words[k - 1].start)),
         text |-> UpperStr(line_words[k].word)]]

LineObj(line_words, line_num, font, color, subtitles) ==
    IF subtitles # <<>> /\ line_num < Len(subtitles)
    THEN [text |-> WordsArray(line_words, font, color), isJson |-> TRUE, locked |-> TRUE,
          seconds |-> line_words[1].start, subtitle |-> UpperStr(subtitles[line_num + 1])]
    ELSE [text |-> WordsArray(line_words, font, color), isJson |-> TRUE, locked |-> TRUE,
          seconds |-> line_words[1].start]

format_reactive(word_timings, font, color, subtitles) ==
    LET order == SortedSeq(LineNums(word_timings))
    IN [k \in 1..Len(order) |->
           LineObj(LineWords(word_timings, order[k]), order[k], font, color, subtitles)]

(***************************************************************************)
(* format_output                                                           *)
(***************************************************************************)
\* the key of an item, given the occurrences counted so far
SimpleKey(clean, word_count) ==
    IF clean \in DOMAIN word_count
    THEN clean \o <<"_">> \o IntToStr(word_count[clean] + 1)
    ELSE clean

Put(f, k, v) == [x \in (DOMAIN f) \cup {k} |-> IF x = k THEN v ELSE f[x]]

RECURSIVE SimpleFold(_, _, _, _)
SimpleFold(items, use_milliseconds, result, word_count) ==
    IF items = <<>> THEN result
    ELSE LET item == Head(items)
             clean == clean_word(item.word)
             time_val == IF use_milliseconds THEN ToMillis(item.start) ELSE item.start
         IN IF clean = <<>>
            THEN SimpleFold(Tail(items), use_milliseconds, result, word_count)
            ELSE SimpleFold(Tail(items), use_milliseconds,
                            Put(result, SimpleKey(clean, word_count), time_val),
                            Put(word_count, clean,
                                IF clean \in DOMAIN word_count
                                THEN word_count[clean] + 1 ELSE 1))

format_output(word_timings, use_milliseconds, simple) ==
    IF simple THEN SimpleFold(word_timings, use_milliseconds, EmptyMap, EmptyMap)
    ELSE IF use_milliseconds
         THEN [k \in 1..Len(word_timings) |->
                  [word |-> word_timings[k].word,
                   start |-> ToMillis(word_timings[k].start),
                   end |-> ToMillis(word_timings[k].end)]]
         ELSE word_timings

(***************************************************************************)
(* Inputs.                                                                 *)
(***************************************************************************)
\* tokens the lyrics tokenizer can produce (runs of [\w'])
LyricsVocab == {<<"a">>, <<"B">>, <<"a", "_", "2">>}

\* words the transcription reports
TransVocab == {<<"A", ",">>, <<"b">>}

\* the gap from the start of the word before, and the duration:
\* a second apart, 12 ms apart and touching, 12 ms apart and overlapping
TimeShapes == {<<100 * Centi, 30 * Centi>>, <<6, 6>>, <<6, 30 * Centi>>}

SubtitleInputs == {<<>>, <<<<"a", "b">>>>}

\* line numbers of the lyrics file: line 1 is blank
LineNumbers == {0, 2}

LinePatterns(n) == {f \in [1..n -> LineNumbers] : \A k \in 1..(n - 1) : f[k] <= f[k + 1]}

LyricsOfLen(n) ==
    {[k \in 1..n |-> [original |-> ws[k], clean |-> clean_word(ws[k]), line |-> ls[k]]] :
        ws \in [1..n -> LyricsVocab], ls \in LinePatterns(n)}

LyricsInputs(maxlen) == UNION {LyricsOfLen(n) : n \in 0..maxlen}

RECURSIVE StartOf(_, _)
StartOf(shapes, k) == IF k <= 1 THEN 0 ELSE StartOf(shapes, k - 1) + shapes[k][1]

TransOfLen(n) ==
    {[k \in 1..n |-> [word |-> ws[k], clean |-> clean_word(ws[k]),
                      start |-> StartOf(sh, k), end |-> StartOf(sh, k) + sh[k][2]]] :
        ws \in [1..n -> TransVocab], sh \in [1..n -> TimeShapes]}

TransInputs == UNION {TransOfLen(n) : n \in 0..MaxTrans}

\* a long transcript: filler words and `rep` copies of one lyrics word from `at` on
LongTrans(n, rep, at) ==
    [k \in 1..n |->
        LET w == IF k >= at /\ k < at + rep THEN <<"A", ",">> ELSE <<"c">>
        IN [word |-> w, clean |-> clean_word(w),
            start |-> (k - 1) * 100 * Centi, end |-> (k - 1) * 100 * Centi + 30 * Centi]]

LongTransInputs ==
    {LongTrans(n, rep, at) : n \in {AutojunkMinLen - 1, AutojunkMinLen},
                             rep \in 0..MaxRepeat, at \in {1, 2, AutojunkMinLen - MaxRepeat - 1}}

NoOutput == [format |-> "none"]

TypeStart ==
    /\ lyrics_to_trans = EmptyMap
    /\ result_timings = <<>>
    /\ report = <<>>
    /\ output = NoOutput
    /\ pc = "start"

Init ==
    /\ lyrics_words \in LyricsInputs(MaxLyrics)
    /\ transcribed \in TransInputs
    /\ TypeStart

InitLong ==
    /\ lyrics_words \in LyricsInputs(2)
    /\ transcribed \in LongTransInputs
    /\ TypeStart

(***************************************************************************)
(* Operations.                                                             *)
(***************************************************************************)
\* align_lyrics: with no lyrics word the match-rate message divides by zero
\* and nothing is returned
Align ==
    /\ pc = "start"
    /\ lyrics_to_trans' = LyricsToTrans(lyrics_words, transcribed)
    /\ result_timings' = ResultTimings(lyrics_words, transcribed, lyrics_to_trans')
    /\ IF Len(lyrics_words) = 0
       THEN /\ report' = <<>>
            /\ pc' = "ZeroDivisionError"
       ELSE /\ report' = <<Matched(lyrics_words, lyrics_to_trans'), Len(lyrics_words),
                           (100 * Matched(lyrics_words, lyrics_to_trans')) \div Len(lyrics_words)>>
            /\ pc' = "aligned"
    /\ UNCHANGED <<lyrics_words, transcribed, output>>

\* main, --reactive
Reactive ==
    /\ pc = "aligned"
    /\ \E subtitles \in SubtitleInputs :
           output' = [format |-> "reactive",
                      value |-> format_reactive(result_timings, DefaultFont, DefaultColor, subtitles)]
    /\ pc' = "saved"
    /\ UNCHANGED <<lyrics_words, transcribed, lyrics_to_trans, result_timings, report>>

\* main, without --reactive
Output ==
    /\ pc = "aligned"
    /\ \E use_milliseconds \in BOOLEAN, simple \in BOOLEAN :
           output' = [format |-> IF simple THEN "simple" ELSE "flat",
                      milliseconds |-> use_milliseconds,
                      value |-> format_output(result_timings, use_milliseconds, simple)]
    /\ pc' = "saved"
    /\ UNCHANGED <<lyrics_words, transcribed, lyrics_to_trans, result_timings, report>>

Next == Align \/ Reactive \/ Output

Spec == Init /\ [][Next]_vars

SpecLong == InitLong /\ [][Next]_vars

(***************************************************************************)
(* Properties.                                                             *)
(***************************************************************************)
Started == pc # "start"

Returned == pc \in {"aligned", "saved"}

NumLyrics == Len(lyrics_words)

Mapped == DOMAIN lyrics_to_trans

\* the transcript word a mapped lyrics index i is matched to
TransOf(i) == transcribed[lyrics_to_trans[i] + 1]

\* each word ends no earlier than it starts
WordsWellFormed == \A k \in 1..Len(transcribed) : transcribed[k].start <= transcribed[k].end

\* starts and ends both in chronological order
Chronological ==
    \A k \in 1..(Len(transcribed) - 1) :
        /\ transcribed[k].start <= transcribed[k + 1].start
        /\ transcribed[k].end <= transcribed[k + 1].end

\* each word ends before the next one starts
NonOverlapping ==
    \A k \in 1..(Len(transcribed) - 1) : transcribed[k].end <= transcribed[k + 1].start

\* the nearest mapped index below i / above i
IsPrevAnchor(p, i) == p \in Mapped /\ p < i /\ \A q \in Mapped : q < i => q <= p

IsNextAnchor(n, i) == n \in Mapped /\ n > i /\ \A q \in Mapped : q > i => q >= n

\* an unmatched lyrics index with a matched one on both sides
Interior(i) ==
    /\ i \in 0..(NumLyrics - 1) /\ i \notin Mapped
    /\ \E p \in Mapped : p < i
    /\ \E n \in Mapped : n > i

\* C1: align_lyrics returns one timing per lyrics word, in lyrics order, with the
\* word's original text and line, whatever the lyrics and the transcript are.
C1_OneEntryPerLyricsWord ==
    Started =>
        /\ Returned
        /\ Len(result_timings) = NumLyrics
        /\ \A k \in 1..NumLyrics :
               /\ result_timings[k].word = lyrics_words[k].original
               /\ result_timings[k].line = lyrics_words[k].line

\* C2: the map is strictly increasing (so injective) and maps a lyrics index only
\* to a transcript index holding the same cleaned token.
C2_MapOrderPreserving ==
    Started =>
        /\ \A i1 \in Mapped : \A i2 \in Mapped :
               i1 < i2 => lyrics_to_trans[i1] < lyrics_to_trans[i2]
        /\ \A i \in Mapped :
               /\ i \in 0..(NumLyrics - 1)
               /\ lyrics_to_trans[i] \in 0..(Len(transcribed) - 1)
               /\ lyrics_words[i + 1].clean = TransOf(i).clean

\* two mapped pairs that are not part of one contiguous block
C2_Witness ==
    /\ Started
    /\ \E i1 \in Mapped : \E i2 \in Mapped :
           i1 < i2 /\ lyrics_to_trans[i2] - lyrics_to_trans[i1] # i2 - i1

\* C3: with no lyrics word align_lyrics completes, reports 0 of 0 matched and
\* returns the empty timing sequence.
C3_EmptyLyricsCompletes ==
    (Started /\ NumLyrics = 0) =>
        /\ Returned
        /\ report # <<>> /\ report[1] = 0 /\ report[2] = 0
        /\ result_timings = <<>>

\* the estimate of an unmatched index, from its nearest anchors
C4_Est(i) ==
    LET prev_time == IF \E p \in Mapped : p < i
                     THEN TransOf(CHOOSE p \in Mapped : IsPrevAnchor(p, i)).end
                     ELSE 0
    IN IF \E n \in Mapped : n > i
       THEN (prev_time + TransOf(CHOOSE n \in Mapped : IsNextAnchor(n, i)).start) \div 2
       ELSE prev_time + 30 * Centi

\* the transcript of the worked example: a (0.0, 0.3) and c (1.0, 1.3)
C4_Example ==
    /\ NumLyrics = 3 /\ Len(transcribed) = 2 /\ Mapped = {0, 2}
    /\ transcribed[1].start = 0 /\ transcribed[1].end = 30 * Centi
    /\ transcribed[2].start = 100 * Centi /\ transcribed[2].end = 130 * Centi

\* C4: a mapped index takes the (rounded) times of its transcript word and is not
\* marked estimated; an unmatched one is marked estimated and takes est and
\* est + 0.2 (rounded to hundredths like every reported time), est being the
\* midpoint of the previous anchor's end (or 0) and the next anchor's start, or
\* the previous end + 0.3 when no later anchor exists.  The words of one unmatched
\* run get the same est, and in the worked example the middle word gets 0.65, 0.85.
C4_EntryDetermined ==
    Returned =>
        /\ \A i \in 0..(NumLyrics - 1) :
               LET e == result_timings[i + 1] IN
               IF i \in Mapped
               THEN /\ e.start = Round2(TransOf(i).start)
                    /\ e.end = Round2(TransOf(i).end)
                    /\ "estimated" \notin DOMAIN e
               ELSE /\ "estimated" \in DOMAIN e /\ e.estimated = TRUE
                    /\ e.start = Round2(C4_Est(i))
                    /\ e.end = Round2(C4_Est(i) + 20 * Centi)
                    /\ e.end - e.start = 20 * Centi
        /\ \A i \in 0..(NumLyrics - 2) :
               (i \notin Mapped /\ i + 1 \notin Mapped) =>
                   result_timings[i + 1].start = result_timings[i + 2].start
        /\ C4_Example => (result_timings[2].start = 65 * Centi /\ result_timings[2].end = 85 * Centi)

C4_Witness ==
    /\ Returned /\ C4_Example
    /\ result_timings[2].estimated = TRUE /\ "estimated" \notin DOMAIN result_timings[1]

\* the occurrence number of the normalized word of item k among items 1..k
C5_Occurrence(k) ==
    Cardinality({j \in 1..k : clean_word(result_timings[j].word) = clean_word(result_timings[k].word)})

C5_Key(k) ==
    IF C5_Occurrence(k) = 1 THEN clean_word(result_timings[k].word)
    ELSE clean_word(result_timings[k].word) \o <<"_">> \o IntToStr(C5_Occurrence(k))

\* C5: in simple format the k-th occurrence of a normalized word w is stored under
\* w (k = 1) or w_k, with its own start time, so there is one key per word with a
\* non-empty normalized form and no entry is overwritten.
C5_SimpleKeys ==
    (pc = "saved" /\ output.format = "simple") =>
        LET kept == {k \in 1..Len(result_timings) : clean_word(result_timings[k].word) # <<>>}
        IN /\ \A k \in kept :
                  /\ C5_Key(k) \in DOMAIN output.value
                  /\ output.value[C5_Key(k)] =
                         IF output.milliseconds THEN ToMillis(result_timings[k].start)
                         ELSE result_timings[k].start
           /\ Cardinality(DOMAIN output.value) = Cardinality(kept)

\* C6: in flat format, with or without milliseconds, there is one entry per timing,
\* in order, keeping word, estimated and line; only start and end change with the flag.
C6_FlatKeepsFields ==
    (pc = "saved" /\ output.format = "flat") =>
        /\ Len(output.value) = Len(result_timings)
        /\ \A k \in 1..Len(result_timings) :
               LET in == result_timings[k]
                   out == output.value[k]
               IN /\ out.word = in.word
                  /\ "estimated" \in DOMAIN in =>
                         ("estimated" \in DOMAIN out /\ out.estimated = in.estimated)
                  /\ "line" \in DOMAIN in => ("line" \in DOMAIN out /\ out.line = in.line)
                  /\ out.start = IF output.milliseconds THEN ToMillis(in.start) ELSE in.start
                  /\ out.end = IF output.milliseconds THEN ToMillis(in.end) ELSE in.end

C7_Lines == {result_timings[k].line : k \in 1..Len(result_timings)}

C7_Indices(ln) == {k \in 1..Len(result_timings) : result_timings[k].line = ln}

RECURSIVE C7_SumTimes(_)
C7_SumTimes(ws) == IF ws = <<>> THEN 0 ELSE Head(ws).time + C7_SumTimes(Tail(ws))

\* C7: the reactive output has one record per distinct line number, in ascending
\* order of line number; a record's seconds is the start of the line's first word;
\* its words are the line's words in input order, the first with time 0 and each
\* later one with its start minus the start of the word before it in the line, so
\* the times of a line add up to last start minus first start.
C7_ReactiveLines ==
    (pc = "saved" /\ output.format = "reactive") =>
        /\ Len(output.value) = Cardinality(C7_Lines)
        /\ \A ln \in C7_Lines :
               LET rec == output.value[Cardinality({l \in C7_Lines : l <= ln})]
                   idx == C7_Indices(ln)
               IN /\ rec.seconds = result_timings[Min(idx)].start
                  /\ Len(rec.text) = Cardinality(idx)
                  /\ \A k \in idx :
                         LET m == Cardinality({j \in idx : j <= k}) IN
                         /\ rec.text[m].text = UpperStr(result_timings[k].word)
                         /\ rec.text[m].time =
                                IF m = 1 THEN 0
                                ELSE result_timings[k].start
                                         - result_timings[Max({j \in idx : j < k})].start
                  /\ C7_SumTimes(rec.text) =
                         result_timings[Max(idx)].start - result_timings[Min(idx)].start

\* two line records, one of them with two words that start at different times
C7_Witness ==
    /\ pc = "saved" /\ output.format = "reactive"
    /\ Len(output.value) = 2
    /\ \E r \in 1..2 : /\ Len(output.value[r].text) = 2
                       /\ output.value[r].text[1].time = 0
                       /\ output.value[r].text[2].time > 0

\* C8 as stated: with well-formed words in chronological order, the start reported
\* for an unmatched word between two anchors is never before the end (at the
\* reported precision) of the transcript word of the previous anchor.
C8_EstimateNotBeforePrevEnd ==
    (Returned /\ WordsWellFormed /\ Chronological) =>
        \A i \in 0..(NumLyrics - 1) : \A p \in Mapped :
            (Interior(i) /\ IsPrevAnchor(p, i)) =>
                result_timings[i + 1].start >= Round2(TransOf(p).end)

\* C8 amended: with well-formed words that do not overlap, the start reported for an
\* unmatched word between two anchors is never before the end reported for the
\* previous anchor (its transcript end rounded to hundredths).
C8_EstimateNotBeforePrevEnd_NonOverlapping ==
    (Returned /\ WordsWellFormed /\ NonOverlapping) =>
        \A i \in 0..(NumLyrics - 1) : \A p \in Mapped :
            (Interior(i) /\ IsPrevAnchor(p, i)) =>
                /\ result_timings[i + 1].start >= Round2(TransOf(p).end)
                /\ result_timings[i + 1].start >= result_timings[p + 1].end

\* an interior estimate over non-overlapping words, rounded below the raw previous end
C8_Witness ==
    /\ Returned /\ WordsWellFormed /\ NonOverlapping
    /\ \E i \in 0..(NumLyrics - 1) : \E p \in Mapped :
           /\ Interior(i) /\ IsPrevAnchor(p, i)
           /\ result_timings[i + 1].start < TransOf(p).end

\* C9: no pair of equal cleaned tokens, both unmatched, could be added to the map
\* keeping it strictly increasing.
C9_MapMaximal ==
    Started =>
        ~ \E i \in (0..(NumLyrics - 1)) \ Mapped :
            \E j \in (0..(Len(transcribed) - 1)) \ {lyrics_to_trans[m] : m \in Mapped} :
                /\ lyrics_words[i + 1].clean = transcribed[j + 1].clean
                /\ \A m \in Mapped : (m < i => lyrics_to_trans[m] < j)
                                     /\ (m > i => lyrics_to_trans[m] > j)

\* C10: when the transcript words are well-formed and do not overlap, the reported
\* starts never decrease along the lyrics, and no reactive time is negative.
C10_StartsNonDecreasing ==
    (Returned /\ WordsWellFormed /\ NonOverlapping) =>
        /\ \A k \in 1..(NumLyrics - 1) : result_timings[k].start <= result_timings[k + 1].start
        /\ (pc = "saved" /\ output.format = "reactive") =>
               \A r \in 1..Len(output.value) : \A m \in 1..Len(output.value[r].text) :
                   output.value[r].text[m].time >= 0

\* a reactive output over non-overlapping words with an estimate before the first
\* anchor and one after the last
C10_Witness ==
    /\ pc = "saved" /\ output.format = "reactive"
    /\ WordsWellFormed /\ NonOverlapping
    /\ \E i \in 0..(NumLyrics - 1) : i \notin Mapped /\ \E m \in Mapped : m < i
    /\ \E i \in 0..(NumLyrics - 1) : i \notin Mapped /\ \E m \in Mapped : m > i
    /\ \E r \in 1..Len(output.value) : \E m \in 1..Len(output.value[r].text) :
           output.value[r].text[m].time > 0

====
